---- MODULE Spec2Model ----
(***************************************************************************)
(* A model of task.py, the command-line task tracker.  One invocation of   *)
(* the program is one step: main() routes sys.argv to a command function,  *)
(* which reads tasks.json, changes the list in memory and writes it back.  *)
(* The only state that survives an invocation is the file.                 *)
(***************************************************************************)
EXTENDS Integers, Sequences, FiniteSets, TLC

\* Bounds of the model.
MaxTasks == 2   \* add is not explored beyond this many stored tasks
MaxId == 3      \* add is not explored beyond this id
MaxClock == 2   \* the wall clock is not explored beyond this many ticks
TicksPerSecond == 2   \* resolution of the wall clock

VARIABLES
    file,      \* tasks.json: absent, holding a task list, or torn by a killed write
    clock,     \* the wall clock, in ticks
    last,      \* history: what the most recent invocation was given and did
    assigned   \* history: every id add_task has ever given to a task

vars == <<file, clock, last, assigned>>

----------------------------------------------------------------------------
\* The file tasks.json

\* No file on disk.
Absent == [exists |-> FALSE, valid |-> FALSE, tasks |-> <<>>]

\* A file holding the JSON of a whole task list.
Stored(tasks) == [exists |-> TRUE, valid |-> TRUE, tasks |-> tasks]

\* A file opened with mode 'w' (so truncated) of which only the first
\* records were flushed before the process died: not parseable as JSON.
Torn(tasks) == [exists |-> TRUE, valid |-> FALSE, tasks |-> tasks]

\* The statuses mark_task accepts.
Statuses == {"todo", "in-progress", "done"}

\* The value of a task slot when a command produced no task.
NoTask == [id |-> 0, description |-> "", status |-> "",
           createdAt |-> 0, updatedAt |-> 0]

\* A kill is given by where it catches the process and how many task
\* records had reached the disk by then; this one never comes.
NoKill == [at |-> "none", k |-> 0]

\* The process at the start of main(): nothing read or written yet.
Boot(f, kill) ==
    [file |-> f, loads |-> 0, saves |-> 0, creates |-> 0,
     kill |-> kill, dead |-> FALSE]

----------------------------------------------------------------------------
\* Utility functions

\* Faulty variant of ensure_file: never creates the file.
ensure_file_noop(st) == st

\* ensure_file: create tasks.json holding [] when it does not exist.
ensure_file(st) ==
    IF st.file.exists THEN st
    ELSE IF st.kill.at = "ensure"
         THEN [st EXCEPT !.file = Torn(<<>>), !.dead = TRUE]
         ELSE [st EXCEPT !.file = Stored(<<>>), !.creates = @ + 1]

\* read_tasks: ensure_file, then json.load of the whole file.  json.load
\* raises JSONDecodeError (a ValueError) on a file that is not JSON.
read_tasks(st) ==
    LET s1 == ensure_file(st) IN
    IF s1.dead THEN [st |-> s1, tasks |-> <<>>, raised |-> FALSE]
    ELSE IF ~s1.file.valid
         THEN [st |-> [s1 EXCEPT !.loads = @ + 1], tasks |-> <<>>, raised |-> TRUE]
         ELSE [st |-> [s1 EXCEPT !.loads = @ + 1],
               tasks |-> s1.file.tasks, raised |-> FALSE]

\* write_tasks: open(FILE_NAME, 'w') truncates the file, json.dump then
\* writes the list and the with-block closes it.
write_tasks(st, tasks) ==
    IF st.kill.at = "write"
    THEN LET k == IF st.kill.k < Len(tasks) THEN st.kill.k ELSE Len(tasks)
         IN  [st EXCEPT !.file = Torn(SubSeq(tasks, 1, k)), !.dead = TRUE]
    ELSE [st EXCEPT !.file = Stored(tasks), !.saves = @ + 1]

\* max(task["id"] for task in tasks) of a non-empty list.
RECURSIVE MaxIdOf(_)
MaxIdOf(tasks) ==
    IF Len(tasks) = 1 THEN tasks[1].id
    ELSE LET m == MaxIdOf(Tail(tasks)) IN
         IF tasks[1].id > m THEN tasks[1].id ELSE m

\* current_time: datetime.now().isoformat(timespec="seconds") drops the
\* fraction of the second; timestamps are kept as whole seconds.
current_time(c) == c \div TicksPerSecond

\* Faulty variant of generate_id: counts the tasks instead of taking the
\* largest id.
generate_id_len(tasks) == Len(tasks) + 1

\* generate_id: max(..., default=0) + 1.
generate_id(tasks) ==
    (IF tasks = <<>> THEN 0 ELSE MaxIdOf(tasks)) + 1

\* Faulty variant of FirstWithId: takes the id for the position in the list.
FirstWithId_index(tasks, task_id) ==
    IF task_id \in 1..Len(tasks) THEN task_id ELSE 0

\* The index of the first task with this id, as the for loops find it; 0
\* when the loop runs to its end.
FirstWithId(tasks, task_id) ==
    IF \E i \in 1..Len(tasks) : tasks[i].id = task_id
    THEN CHOOSE i \in 1..Len(tasks) :
            /\ tasks[i].id = task_id
            /\ \A j \in 1..(i - 1) : tasks[j].id # task_id
    ELSE 0

\* Faulty variant of Pop: removes the last element whatever the index.
Pop_last(tasks, i) == SubSeq(tasks, 1, Len(tasks) - 1)

\* tasks.pop(i)
Pop(tasks, i) == SubSeq(tasks, 1, i - 1) \o SubSeq(tasks, i + 1, Len(tasks))

\* What a command function hands back to main().
Result(st, outcome, task, out) ==
    [st |-> st, outcome |-> outcome, task |-> task, out |-> out]

----------------------------------------------------------------------------
\* Command functions

\* Faulty variant of add_task: builds the task but never calls write_tasks.
add_task_nosave(st, now, description) ==
    IF description = "" THEN Result(st, "validation", NoTask, <<>>)
    ELSE
    LET rd == read_tasks(st) IN
    IF rd.st.dead THEN Result(rd.st, "killed", NoTask, <<>>)
    ELSE IF rd.raised THEN Result(rd.st, "raised", NoTask, <<>>)
    ELSE Result(rd.st, "added",
                [id |-> generate_id(rd.tasks), description |-> description,
                 status |-> "todo", createdAt |-> now, updatedAt |-> now],
                <<>>)

\* Faulty variant of add_task: puts the new task at the head of the list.
add_task_prepend(st, now, description) ==
    IF description = "" THEN Result(st, "validation", NoTask, <<>>)
    ELSE
    LET rd == read_tasks(st) IN
    IF rd.st.dead THEN Result(rd.st, "killed", NoTask, <<>>)
    ELSE IF rd.raised THEN Result(rd.st, "raised", NoTask, <<>>)
    ELSE
    LET task == [id |-> generate_id(rd.tasks),
                 description |-> description,
                 status |-> "todo",
                 createdAt |-> now,
                 updatedAt |-> now]
        wr == write_tasks(rd.st, <<task>> \o rd.tasks)
    IN  IF wr.dead THEN Result(wr, "killed", NoTask, <<>>)
        ELSE Result(wr, "added", task, <<>>)

\* add_task(description)
add_task(st, now, description) ==
    IF description = "" THEN Result(st, "validation", NoTask, <<>>)
    ELSE
    LET rd == read_tasks(st) IN
    IF rd.st.dead THEN Result(rd.st, "killed", NoTask, <<>>)
    ELSE IF rd.raised THEN Result(rd.st, "raised", NoTask, <<>>)
    ELSE
    LET task == [id |-> generate_id(rd.tasks),
                 description |-> description,
                 status |-> "todo",
                 createdAt |-> now,
                 updatedAt |-> now]
        wr == write_tasks(rd.st, Append(rd.tasks, task))
    IN  IF wr.dead THEN Result(wr, "killed", NoTask, <<>>)
        ELSE Result(wr, "added", task, <<>>)

\* Faulty variant of update_task: reads the file before it looks at the
\* description.
update_task_readfirst(st, now, task_id, description) ==
    LET rd == read_tasks(st) IN
    IF rd.st.dead THEN Result(rd.st, "killed", NoTask, <<>>)
    ELSE IF rd.raised THEN Result(rd.st, "raised", NoTask, <<>>)
    ELSE IF description = "" THEN Result(rd.st, "validation", NoTask, <<>>)
    ELSE
    LET i == FirstWithId(rd.tasks, task_id) IN
    IF i = 0 THEN Result(rd.st, "notfound", NoTask, <<>>)
    ELSE
    LET task == [rd.tasks[i] EXCEPT !.description = description,
                                    !.updatedAt = now]
        wr == write_tasks(rd.st, [rd.tasks EXCEPT ![i] = task])
    IN  IF wr.dead THEN Result(wr, "killed", NoTask, <<>>)
        ELSE Result(wr, "updated", task, <<>>)

\* update_task(task_id, description)
update_task(st, now, task_id, description) ==
    IF description = "" THEN Result(st, "validation", NoTask, <<>>)
    ELSE
    LET rd == read_tasks(st) IN
    IF rd.st.dead THEN Result(rd.st, "killed", NoTask, <<>>)
    ELSE IF rd.raised THEN Result(rd.st, "raised", NoTask, <<>>)
    ELSE
    LET i == FirstWithId(rd.tasks, task_id) IN
    IF i = 0 THEN Result(rd.st, "notfound", NoTask, <<>>)
    ELSE
    LET task == [rd.tasks[i] EXCEPT !.description = description,
                                    !.updatedAt = now]
        wr == write_tasks(rd.st, [rd.tasks EXCEPT ![i] = task])
    IN  IF wr.dead THEN Result(wr, "killed", NoTask, <<>>)
        ELSE Result(wr, "updated", task, <<>>)

\* delete_task(task_id)
delete_task(st, task_id) ==
    LET rd == read_tasks(st) IN
    IF rd.st.dead THEN Result(rd.st, "killed", NoTask, <<>>)
    ELSE IF rd.raised THEN Result(rd.st, "raised", NoTask, <<>>)
    ELSE
    LET i == FirstWithId(rd.tasks, task_id) IN
    IF i = 0 THEN Result(rd.st, "notfound", NoTask, <<>>)
    ELSE
    LET wr == write_tasks(rd.st, Pop(rd.tasks, i))
    IN  IF wr.dead THEN Result(wr, "killed", NoTask, <<>>)
        ELSE Result(wr, "deleted", rd.tasks[i], <<>>)

\* Faulty variant of mark_task: calls write_tasks after the loop as well, so
\* the list is saved when no task has the id.
mark_task_alwayssave(st, now, task_id, status) ==
    IF status \notin Statuses THEN Result(st, "validation", NoTask, <<>>)
    ELSE
    LET rd == read_tasks(st) IN
    IF rd.st.dead THEN Result(rd.st, "killed", NoTask, <<>>)
    ELSE IF rd.raised THEN Result(rd.st, "raised", NoTask, <<>>)
    ELSE
    LET i == FirstWithId(rd.tasks, task_id) IN
    IF i = 0
    THEN LET wr == write_tasks(rd.st, rd.tasks)
         IN  IF wr.dead THEN Result(wr, "killed", NoTask, <<>>)
             ELSE Result(wr, "notfound", NoTask, <<>>)
    ELSE
    LET task == [rd.tasks[i] EXCEPT !.status = status, !.updatedAt = now]
        wr == write_tasks(rd.st, [rd.tasks EXCEPT ![i] = task])
    IN  IF wr.dead THEN Result(wr, "killed", NoTask, <<>>)
        ELSE Result(wr, "marked", task, <<>>)

\* Faulty variant of mark_task: sets the status and leaves updatedAt as it was.
mark_task_stale(st, now, task_id, status) ==
    IF status \notin Statuses THEN Result(st, "validation", NoTask, <<>>)
    ELSE
    LET rd == read_tasks(st) IN
    IF rd.st.dead THEN Result(rd.st, "killed", NoTask, <<>>)
    ELSE IF rd.raised THEN Result(rd.st, "raised", NoTask, <<>>)
    ELSE
    LET i == FirstWithId(rd.tasks, task_id) IN
    IF i = 0 THEN Result(rd.st, "notfound", NoTask, <<>>)
    ELSE
    LET task == [rd.tasks[i] EXCEPT !.status = status]
        wr == write_tasks(rd.st, [rd.tasks EXCEPT ![i] = task])
    IN  IF wr.dead THEN Result(wr, "killed", NoTask, <<>>)
        ELSE Result(wr, "marked", task, <<>>)

\* Faulty variant of mark_task: stores whatever status it is given.
mark_task_novalidate(st, now, task_id, status) ==
    LET rd == read_tasks(st) IN
    IF rd.st.dead THEN Result(rd.st, "killed", NoTask, <<>>)
    ELSE IF rd.raised THEN Result(rd.st, "raised", NoTask, <<>>)
    ELSE
    LET i == FirstWithId(rd.tasks, task_id) IN
    IF i = 0 THEN Result(rd.st, "notfound", NoTask, <<>>)
    ELSE
    LET task == [rd.tasks[i] EXCEPT !.status = status, !.updatedAt = now]
        wr == write_tasks(rd.st, [rd.tasks EXCEPT ![i] = task])
    IN  IF wr.dead THEN Result(wr, "killed", NoTask, <<>>)
        ELSE Result(wr, "marked", task, <<>>)

\* mark_task(task_id, status)
mark_task(st, now, task_id, status) ==
    IF status \notin Statuses THEN Result(st, "validation", NoTask, <<>>)
    ELSE
    LET rd == read_tasks(st) IN
    IF rd.st.dead THEN Result(rd.st, "killed", NoTask, <<>>)
    ELSE IF rd.raised THEN Result(rd.st, "raised", NoTask, <<>>)
    ELSE
    LET i == FirstWithId(rd.tasks, task_id) IN
    IF i = 0 THEN Result(rd.st, "notfound", NoTask, <<>>)
    ELSE
    LET task == [rd.tasks[i] EXCEPT !.status = status, !.updatedAt = now]
        wr == write_tasks(rd.st, [rd.tasks EXCEPT ![i] = task])
    IN  IF wr.dead THEN Result(wr, "killed", NoTask, <<>>)
        ELSE Result(wr, "marked", task, <<>>)

\* The list comprehension of list_tasks: the tasks with this status, in order.
RECURSIVE WithStatus(_, _)
WithStatus(tasks, status) ==
    IF tasks = <<>> THEN <<>>
    ELSE (IF tasks[1].status = status THEN <<tasks[1]>> ELSE <<>>)
         \o WithStatus(Tail(tasks), status)

\* An optional argument: None, or a string.
None == <<>>
Some(s) == <<s>>

\* Python's truth value of an optional string: None and "" are false.
Truthy(opt) == opt # None /\ opt[1] # ""

\* Faulty variant of list_tasks: saves the filtered list it prints.
list_tasks_save(st, status_filter) ==
    LET rd == read_tasks(st) IN
    IF rd.st.dead THEN Result(rd.st, "killed", NoTask, <<>>)
    ELSE IF rd.raised THEN Result(rd.st, "raised", NoTask, <<>>)
    ELSE IF rd.tasks = <<>> THEN Result(rd.st, "empty", NoTask, <<>>)
    ELSE IF Truthy(status_filter)
    THEN LET shown == WithStatus(rd.tasks, status_filter[1]) IN
         IF shown = <<>> THEN Result(rd.st, "nomatch", NoTask, <<>>)
         ELSE Result(write_tasks(rd.st, shown), "listed", NoTask, shown)
    ELSE Result(rd.st, "listed", NoTask, rd.tasks)

\* list_tasks(status_filter=None): out is the sequence of tasks printed.
list_tasks(st, status_filter) ==
    LET rd == read_tasks(st) IN
    IF rd.st.dead THEN Result(rd.st, "killed", NoTask, <<>>)
    ELSE IF rd.raised THEN Result(rd.st, "raised", NoTask, <<>>)
    ELSE IF rd.tasks = <<>> THEN Result(rd.st, "empty", NoTask, <<>>)
    ELSE IF Truthy(status_filter)
    THEN LET shown == WithStatus(rd.tasks, status_filter[1]) IN
         IF shown = <<>> THEN Result(rd.st, "nomatch", NoTask, <<>>)
         ELSE Result(rd.st, "listed", NoTask, shown)
    ELSE Result(rd.st, "listed", NoTask, rd.tasks)

----------------------------------------------------------------------------
\* The command line

\* sys.argv[0]
Prog == "task.py"

\* " ".join(tokens)
RECURSIVE Join(_)
Join(tokens) ==
    IF tokens = <<>> THEN ""
    ELSE IF Len(tokens) = 1 THEN tokens[1]
    ELSE tokens[1] \o " " \o Join(Tail(tokens))

\* Faulty variant of ParseInt: a token that is no numeral counts as 0
\* instead of raising ValueError.
ParseInt_zero(token) ==
    CASE token = "1" -> [ok |-> TRUE, value |-> 1]
      [] token = "2" -> [ok |-> TRUE, value |-> 2]
      [] token = "3" -> [ok |-> TRUE, value |-> 3]
      [] token = "4" -> [ok |-> TRUE, value |-> 4]
      [] token = "5" -> [ok |-> TRUE, value |-> 5]
      [] token = "-1" -> [ok |-> TRUE, value |-> -1]
      [] token = " 2" -> [ok |-> TRUE, value |-> 2]
      [] OTHER -> [ok |-> TRUE, value |-> 0]

\* int(token): a decimal numeral with an optional sign, surrounding
\* whitespace allowed; anything else raises ValueError.
ParseInt(token) ==
    CASE token = "1" -> [ok |-> TRUE, value |-> 1]
      [] token = "2" -> [ok |-> TRUE, value |-> 2]
      [] token = "3" -> [ok |-> TRUE, value |-> 3]
      [] token = "4" -> [ok |-> TRUE, value |-> 4]
      [] token = "5" -> [ok |-> TRUE, value |-> 5]
      [] token = "-1" -> [ok |-> TRUE, value |-> -1]
      [] token = " 2" -> [ok |-> TRUE, value |-> 2]
      [] OTHER -> [ok |-> FALSE, value |-> 0]

\* The except ValueError clauses of main(): JSONDecodeError is a ValueError,
\* so a file that does not parse is reported like an id that does not.
ExceptValueError(r) ==
    IF r.outcome = "raised" THEN [r EXCEPT !.outcome = "argerror"] ELSE r

\* An exception no clause catches ends the process with a traceback.
Uncaught(r) ==
    IF r.outcome = "raised" THEN [r EXCEPT !.outcome = "crash"] ELSE r

\* main(): argv is sys.argv, so argv[1] is the program and argv[2] the command.
main(st, now, argv) ==
    IF Len(argv) < 2 THEN Result(st, "usage", NoTask, <<>>)
    ELSE
    LET command == argv[2]
        n == Len(argv)
    IN
    IF command = "add" /\ n > 2
    THEN Uncaught(add_task(st, now, Join(SubSeq(argv, 3, n))))
    ELSE IF command = "update" /\ n > 3
    THEN LET task_id == ParseInt(argv[3]) IN
         IF ~task_id.ok THEN Result(st, "argerror", NoTask, <<>>)
         ELSE ExceptValueError(
                update_task(st, now, task_id.value, Join(SubSeq(argv, 4, n))))
    ELSE IF command = "delete" /\ n > 2
    THEN LET task_id == ParseInt(argv[3]) IN
         IF ~task_id.ok THEN Result(st, "argerror", NoTask, <<>>)
         ELSE ExceptValueError(delete_task(st, task_id.value))
    ELSE IF command = "mark" /\ n > 3
    THEN LET task_id == ParseInt(argv[3]) IN
         IF ~task_id.ok THEN Result(st, "argerror", NoTask, <<>>)
         ELSE ExceptValueError(mark_task(st, now, task_id.value, argv[4]))
    ELSE IF command = "list"
    THEN Uncaught(list_tasks(st, IF n > 2 THEN Some(argv[3]) ELSE None))
    ELSE Result(st, "invalid", NoTask, <<>>)

----------------------------------------------------------------------------
\* The command lines explored

\* Numerals of the ids add_task can have assigned.
IdTokens == {ToString(i) : i \in 1..MaxId}

AddArgvs ==
    {<<Prog, "add">>, <<Prog, "add", "a">>, <<Prog, "add", "">>,
     <<Prog, "add", "", "">>}

UpdateArgvs ==
    {<<Prog, "update", "1">>, <<Prog, "update", "1", "">>,
     <<Prog, "update", "x", "a">>}
    \cup {<<Prog, "update", i, "a">> : i \in IdTokens}
    \cup {<<Prog, "update", i, "", "">> : i \in IdTokens}

DeleteArgvs ==
    {<<Prog, "delete">>, <<Prog, "delete", "x">>, <<Prog, "delete", "-1">>}
    \cup {<<Prog, "delete", i>> : i \in IdTokens}

MarkArgvs ==
    {<<Prog, "mark", "1">>, <<Prog, "mark", "1", "bogus">>,
     <<Prog, "mark", "x", "done">>}
    \cup {<<Prog, "mark", i, s>> : i \in IdTokens, s \in Statuses}

ListArgvs ==
    {<<Prog, "list">>}
    \cup {<<Prog, "list", s>> : s \in Statuses \cup {"bogus", ""}}

HelpArgvs == {<<Prog>>, <<Prog, "help">>}

Argvs ==
    AddArgvs \cup UpdateArgvs \cup DeleteArgvs \cup MarkArgvs \cup ListArgvs
    \cup HelpArgvs

\* The places a kill can change what is on disk: while ensure_file writes,
\* and while write_tasks writes with none or one of the records flushed.
Kills ==
    {[at |-> "ensure", k |-> 0],
     [at |-> "write", k |-> 0], [at |-> "write", k |-> 1]}

----------------------------------------------------------------------------
\* The state machine

Init ==
    /\ file \in {Absent, Stored(<<>>)}
    /\ clock = 0
    /\ assigned = {}
    /\ last = [argv |-> <<Prog>>, outcome |-> "usage", task |-> NoTask,
               out |-> <<>>, loads |-> 0, saves |-> 0, creates |-> 0,
               pre |-> file, reissued |-> FALSE, prevAdded |-> <<>>]

\* One run of the program with command line argv, killed at `kill` if it
\* gets there.  The command function's now is current_time() at this run.
Invoke(argv, kill) ==
    \E r \in {main(Boot(file, kill), current_time(clock), argv)} :
        /\ r.outcome = "added" =>
              /\ r.task.id <= MaxId
              /\ Len(r.st.file.tasks) <= MaxTasks
        /\ r.st.dead = (kill # NoKill)
        /\ file' = r.st.file
        /\ assigned' = IF r.outcome = "added" THEN assigned \cup {r.task.id}
                       ELSE assigned
        /\ last' = [argv |-> argv, outcome |-> r.outcome, task |-> r.task,
                    out |-> r.out, loads |-> r.st.loads, saves |-> r.st.saves,
                    creates |-> r.st.creates, pre |-> file,
                    reissued |-> r.outcome = "added" /\ r.task.id \in assigned,
                    prevAdded |-> IF last.outcome = "added"
                                  THEN <<last.task.id>> ELSE <<>>]

Add ==
    \E argv \in AddArgvs : Invoke(argv, NoKill) /\ UNCHANGED clock

Update ==
    \E argv \in UpdateArgvs : Invoke(argv, NoKill) /\ UNCHANGED clock

Delete ==
    \E argv \in DeleteArgvs : Invoke(argv, NoKill) /\ UNCHANGED clock

Mark ==
    \E argv \in MarkArgvs : Invoke(argv, NoKill) /\ UNCHANGED clock

List ==
    \E argv \in ListArgvs : Invoke(argv, NoKill) /\ UNCHANGED clock

Help ==
    \E argv \in HelpArgvs : Invoke(argv, NoKill) /\ UNCHANGED clock

\* Time passes between two invocations.
Tick ==
    /\ clock < MaxClock
    /\ clock' = clock + 1
    /\ UNCHANGED <<file, last, assigned>>

\* A mutating command that a kill signal ends part-way.
Killed ==
    \E argv \in AddArgvs \cup UpdateArgvs \cup DeleteArgvs \cup MarkArgvs,
       kill \in Kills : Invoke(argv, kill) /\ UNCHANGED clock

Next == Add \/ Update \/ Delete \/ Mark \/ List \/ Help \/ Tick

Spec == Init /\ [][Next]_vars

NextKill == Next \/ Killed

SpecKill == Init /\ [][NextKill]_vars

----------------------------------------------------------------------------
\* Vocabulary of the properties

\* The ids of the tasks of a list.
Ids(tasks) == {tasks[i].id : i \in 1..Len(tasks)}

\* main() routes argv to the command function of `verb`, which takes at
\* least n arguments.
Routed(argv, verb, n) == Len(argv) > n + 1 /\ argv[2] = verb

\* The description an add or update command line spells, from token `from`.
Spelled(argv, from) == Join(SubSeq(argv, from, Len(argv)))

\* The last invocation was update, delete or mark with an integer id.
LastById ==
    /\ \/ Routed(last.argv, "update", 2)
       \/ Routed(last.argv, "delete", 1)
       \/ Routed(last.argv, "mark", 2)
    /\ ParseInt(last.argv[3]).ok

\* Its other argument passes the command's validation.
LastArgsValid ==
    /\ Routed(last.argv, "update", 2) => Spelled(last.argv, 4) # ""
    /\ Routed(last.argv, "mark", 2) => last.argv[4] \in Statuses

\* The descriptions of the explored command lines that are empty or only
\* whitespace.
Blank == {"", " ", "  "}

----------------------------------------------------------------------------
\* Properties

\* C1: from an absent or empty store, after any sequence of commands, every
\* id in the persisted collection is a positive integer and no two tasks of
\* the collection have the same id.
C1_IdsPositiveUnique ==
    file.exists =>
        /\ \A i \in 1..Len(file.tasks) : file.tasks[i].id \in Nat \ {0}
        /\ \A i, j \in 1..Len(file.tasks) :
              file.tasks[i].id = file.tasks[j].id => i = j

\* C1 witness: an add has just stored a second task after an earlier task
\* was deleted.
C1_Witness ==
    /\ last.outcome = "added"
    /\ Len(file.tasks) >= 2
    /\ assigned \ Ids(file.tasks) # {}

\* C2: on a persisted collection, update, delete and mark with valid
\* arguments and an id that no task has report not-found and leave the
\* persisted collection exactly as it was.
C2_NotFoundUnchanged ==
    (/\ LastById /\ LastArgsValid
     /\ last.pre.exists /\ last.pre.valid
     /\ ParseInt(last.argv[3]).value \notin Ids(last.pre.tasks))
    => (last.outcome = "notfound" /\ file = last.pre)

\* C2 witness: an update with a description, for an id that none of the
\* stored tasks has, has run on a non-empty collection.
C2_Witness ==
    /\ Routed(last.argv, "update", 2)
    /\ last.outcome = "notfound"
    /\ last.pre.tasks # <<>>
    /\ file = last.pre

\* C3 as stated: an id once assigned is never assigned by a later add.
C3_NeverReissued == ~last.reissued

\* C3 amended: an id is assigned again only when no task of the collection
\* has that id or a larger one, that is after the task that had it and
\* every task with a larger id were deleted.
C3_ReissuedOnlyAboveAll ==
    last.outcome = "added" =>
        \A i \in 1..Len(last.pre.tasks) : last.pre.tasks[i].id < last.task.id

\* C3 witness: an add reissued an id while another task was stored.
C3_Witness ==
    /\ last.outcome = "added"
    /\ last.reissued
    /\ last.pre.tasks # <<>>

\* C4: successive adds with non-empty descriptions, nothing in between,
\* assign strictly increasing (so pairwise distinct) ids.
C4_AddsIncrease ==
    (last.outcome = "added" /\ last.prevAdded # <<>>)
    => last.task.id > last.prevAdded[1]

\* C4 witness: two adds in a row, both tasks stored, the second with the
\* next id after the first.
C4_Witness ==
    /\ last.outcome = "added"
    /\ last.prevAdded # <<>>
    /\ last.task.id = last.prevAdded[1] + 1
    /\ {last.prevAdded[1], last.task.id} \subseteq Ids(file.tasks)

\* C5: a new task's id is 1 on an empty collection and otherwise 1 plus the
\* largest id in the collection.
C5_NextIdIsMaxPlusOne ==
    last.outcome = "added" =>
        IF last.pre.tasks = <<>> THEN last.task.id = 1
        ELSE /\ last.task.id - 1 \in Ids(last.pre.tasks)
             /\ \A id \in Ids(last.pre.tasks) : id <= last.task.id - 1

\* C5 witness: the scenario add, add, delete 1, add: ids 1 and 2 were
\* assigned, only task 2 was left, and the add gave id 3.
C5_Witness ==
    /\ last.outcome = "added"
    /\ Ids(last.pre.tasks) = {2}
    /\ assigned = {1, 2, 3}
    /\ last.task.id = 3
    /\ Ids(file.tasks) = {2, 3}

\* C6 as stated: add with an empty or whitespace-only description is
\* rejected before storage is touched and the persisted state is unchanged.
C6_BlankAddRejected ==
    (Routed(last.argv, "add", 1) /\ Spelled(last.argv, 3) \in Blank)
    => /\ last.outcome = "validation"
       /\ last.loads = 0 /\ last.saves = 0 /\ last.creates = 0
       /\ file = last.pre

\* C7 as stated: a mutating command that is killed leaves the persisted
\* collection as it was before the command.
C7_KilledLeavesPrior ==
    (last.outcome = "killed" /\ last.pre.valid) => file = last.pre

\* C8 as stated: list never changes the persisted state, also when no
\* persisted collection exists yet.
C8_ListChangesNothing == Routed(last.argv, "list", 0) => file = last.pre

\* C8 amended: list never saves; it leaves an existing file as it was, and
\* on an absent file its load creates the file holding the empty collection.
C8_ListOnlyCreates ==
    Routed(last.argv, "list", 0) =>
        /\ last.saves = 0
        /\ last.pre.exists => (file = last.pre /\ last.creates = 0)
        /\ ~last.pre.exists => (file = Stored(<<>>) /\ last.creates = 1)

\* C8 witness: a filtered list that printed some but not all of the tasks.
C8_Witness ==
    /\ Routed(last.argv, "list", 1)
    /\ last.outcome = "listed"
    /\ Len(last.out) < Len(file.tasks)

\* The last invocation was add, update, delete or mark and reached its
\* command function.
LastMutating ==
    \/ Routed(last.argv, "add", 1)
    \/ LastById

\* C9 as stated: a successful mutating command loads once and saves once,
\* and one that fails validation or lookup writes nothing to the file, from
\* any starting state including an absent file.
C9_FailedWritesNothing ==
    LastMutating =>
        /\ last.outcome \in {"added", "updated", "deleted", "marked"}
              => (last.loads = 1 /\ last.saves = 1)
        /\ last.outcome \in {"validation", "notfound"}
              => (last.saves = 0 /\ last.creates = 0 /\ file = last.pre)

\* C9 amended: a successful mutating command loads once and saves once; one
\* that fails validation neither reads nor writes; one that fails lookup
\* loads once and never saves.  The only other write, in a command that
\* gets as far as loading, is the load's creation of the empty collection
\* when the file was absent.
C9_OneLoadOneSave ==
    LastMutating =>
        /\ last.outcome \in {"added", "updated", "deleted", "marked"}
              => /\ last.loads = 1 /\ last.saves = 1
                 /\ last.creates = IF last.pre.exists THEN 0 ELSE 1
        /\ last.outcome = "validation"
              => (/\ last.loads = 0 /\ last.saves = 0 /\ last.creates = 0
                  /\ file = last.pre)
        /\ last.outcome = "notfound"
              => /\ last.loads = 1 /\ last.saves = 0
                 /\ IF last.pre.exists
                    THEN last.creates = 0 /\ file = last.pre
                    ELSE last.creates = 1 /\ file = Stored(<<>>)

\* C9 witness: a lookup that failed on an absent file, which the load
\* created.
C9_Witness ==
    /\ LastById
    /\ last.outcome = "notfound"
    /\ ~last.pre.exists
    /\ file = Stored(<<>>)

\* C10: update with an empty description and mark with a status outside the
\* three are rejected without reading, creating or writing the file, whether
\* or not the id exists.
C10_ValidationBeforeStorage ==
    (/\ LastById
     /\ \/ Routed(last.argv, "update", 2) /\ Spelled(last.argv, 4) = ""
        \/ Routed(last.argv, "mark", 2) /\ last.argv[4] \notin Statuses)
    => /\ last.outcome = "validation"
       /\ last.loads = 0 /\ last.saves = 0 /\ last.creates = 0
       /\ file = last.pre

\* C10 witness: an update with an empty description ran while there was no
\* file, and there is still none.
C10_Witness ==
    /\ Routed(last.argv, "update", 2)
    /\ Spelled(last.argv, 4) = ""
    /\ last.outcome = "validation"
    /\ ~file.exists

\* The explored id tokens that are not numerals.
NonNumerals == {"x"}

\* The last command line names update, delete or mark and has an id token
\* that is no integer.
LastBadId ==
    /\ \/ Routed(last.argv, "update", 2)
       \/ Routed(last.argv, "delete", 1)
       \/ Routed(last.argv, "mark", 2)
    /\ last.argv[3] \in NonNumerals

\* The last command line names a command and lacks an argument it requires.
LastMissingArg ==
    /\ Len(last.argv) >= 2
    /\ \/ last.argv[2] \in {"add", "delete"} /\ Len(last.argv) = 2
       \/ last.argv[2] \in {"update", "mark"} /\ Len(last.argv) \in {2, 3}

\* C11: an id token that is no integer, and a missing required argument,
\* each end the invocation with a printed error or usage message and without
\* any task-store operation: the file is neither read nor written.
C11_DispatcherRejects ==
    /\ LastBadId => last.outcome = "argerror"
    /\ LastMissingArg => last.outcome = "invalid"
    /\ (LastBadId \/ LastMissingArg) =>
          /\ last.loads = 0 /\ last.saves = 0 /\ last.creates = 0
          /\ file = last.pre

\* C11 witness: update with a non-integer id and a description has run on a
\* stored collection with a task in it.
C11_Witness ==
    /\ Routed(last.argv, "update", 2)
    /\ last.argv[3] \in NonNumerals
    /\ last.outcome = "argerror"
    /\ file.tasks # <<>>

\* The last command was a list that ran to completion.
LastListed ==
    /\ Len(last.argv) >= 2
    /\ last.argv[2] = "list"
    /\ last.outcome \in {"empty", "nomatch", "listed"}

\* The tasks of the collection whose status equals the filter, in order.
Matching(tasks, status_filter) ==
    LET Match(t) == t.status = status_filter
    IN  SelectSeq(tasks, Match)

\* t is one of the tasks in the sequence.
Includes(tasks, t) == \E i \in 1..Len(tasks) : tasks[i] = t

\* The status filters explored on the command line.
Filters == Statuses \cup {"bogus", ""}

\* C12: after a successful mark of an existing id with status s, list with
\* filter s includes that task and list with any other status filter
\* excludes it; list with a status filter yields exactly the tasks whose
\* status equals the filter, in their original order, and list without a
\* filter yields the whole collection.
C12_ListFilterExact ==
    /\ last.outcome = "marked" =>
          \A f \in Filters :
              Includes(list_tasks(Boot(file, NoKill), Some(f)).out, last.task)
                  <=> f = last.argv[4]
    /\ (LastListed /\ Len(last.argv) >= 3) =>
          last.out = Matching(file.tasks, last.argv[3])
    /\ (LastListed /\ Len(last.argv) = 2) => last.out = file.tasks

\* What list without a filter prints when run on the file as it is now.
ListedNow == list_tasks(Boot(file, NoKill), None).out

\* C13: after a successful add, an unfiltered list includes the new task as
\* the last element of the collection, with status todo and with createdAt
\* equal to updatedAt.
C13_AddedIsListedLast ==
    last.outcome = "added" =>
        /\ Len(ListedNow) = Len(last.pre.tasks) + 1
        /\ ListedNow[Len(ListedNow)] = last.task
        /\ SubSeq(ListedNow, 1, Len(ListedNow) - 1) = last.pre.tasks
        /\ last.task.status = "todo"
        /\ last.task.createdAt = last.task.updatedAt
        /\ last.task.description = Join(SubSeq(last.argv, 3, Len(last.argv)))

\* C13 witness: an add has put a second task behind an older one, later on
\* the clock than the first.
C13_Witness ==
    /\ last.outcome = "added"
    /\ Len(ListedNow) = 2
    /\ ListedNow[2] = last.task
    /\ ListedNow[1].createdAt < last.task.createdAt

\* The last command was a mark or an update that changed a task.
LastChanged == last.outcome \in {"marked", "updated"}

\* C14 as stated: after a task is added and then successfully marked or
\* updated, its updatedAt is strictly greater than its createdAt, also when
\* the clock has not advanced between the two commands.
C14_UpdatedAfterCreated ==
    LastChanged => last.task.updatedAt > last.task.createdAt

\* C14 amended: a successful mark or update sets updatedAt to the second of
\* the clock at that command, which is never before createdAt and is after
\* it exactly when the clock has reached a later second than the one the
\* task was added in.
C14_UpdatedNotBeforeCreated ==
    [][(last' # last /\ last'.outcome \in {"marked", "updated"}) =>
          /\ last'.task.updatedAt = current_time(clock)
          /\ last'.task.createdAt <= last'.task.updatedAt
          /\ last'.task.updatedAt > last'.task.createdAt
                <=> current_time(clock) > last'.task.createdAt
          /\ Includes(file'.tasks, last'.task)]_vars

\* C14 witness: a task was marked in a later second than it was added in.
C14_Witness ==
    /\ last.outcome = "marked"
    /\ last.task.updatedAt > last.task.createdAt
    /\ Includes(file.tasks, last.task)

\* C15: from an absent or empty store, after any sequence of commands with
\* arbitrary status tokens, every task of the persisted collection has one
\* of the statuses todo, in-progress, done, and a new task's status is todo.
C15_StatusesValid ==
    /\ \A i \in 1..Len(file.tasks) :
          file.tasks[i].status \in {"todo", "in-progress", "done"}
    /\ last.outcome = "added" =>
          /\ last.task.status = "todo"
          /\ Includes(file.tasks, last.task)

\* C15 witness: a mark with a status token outside the three has been
\* refused on a collection that holds the task it names, beside a task
\* that an earlier mark moved away from todo.
C15_Witness ==
    /\ Routed(last.argv, "mark", 2)
    /\ last.argv[4] \notin {"todo", "in-progress", "done"}
    /\ last.outcome = "validation"
    /\ ParseInt(last.argv[3]).value \in Ids(file.tasks)
    /\ \E i \in 1..Len(file.tasks) : file.tasks[i].status = "done"

\* The last command line reaches the task store: add, update, delete or
\* mark with valid arguments, or list.
LastStoreReaching ==
    \/ Routed(last.argv, "add", 1) /\ Spelled(last.argv, 3) # ""
    \/ LastById /\ LastArgsValid
    \/ Routed(last.argv, "list", 0)

\* C16: when no persisted collection exists, loading creates an empty
\* collection, persists it and returns it: the first store-reaching command
\* on an absent file operates on the empty collection and leaves a
\* persisted collection in existence.
C16_AbsentLoadsEmpty ==
    (~last.pre.exists /\ LastStoreReaching) =>
        /\ last.creates = 1 /\ last.loads = 1
        /\ file.exists /\ file.valid
        /\ Routed(last.argv, "add", 1) =>
              /\ last.outcome = "added"
              /\ last.task.id = 1
              /\ file.tasks = <<last.task>>
        /\ LastById => (last.outcome = "notfound" /\ file.tasks = <<>>)
        /\ Routed(last.argv, "list", 0) =>
              /\ last.outcome = "empty"
              /\ last.out = <<>>
              /\ file.tasks = <<>>

\* C16 witness: a delete with an integer id was the first command to reach
\* the store, with no file there, and left the empty collection on disk.
C16_Witness ==
    /\ ~last.pre.exists
    /\ Routed(last.argv, "delete", 1)
    /\ last.outcome = "notfound"
    /\ last.creates = 1
    /\ file.exists /\ file.valid /\ file.tasks = <<>>

\* C17: a successful update changes only the description and updatedAt of
\* the task with the matching id, and a successful mark only its status and
\* updatedAt: that task's id and createdAt, every other task's fields, the
\* number of tasks and their order are unchanged.
C17_ChangeFrame ==
    LastChanged =>
        LET task_id == ParseInt(last.argv[3]).value
            old == last.pre.tasks
            new == file.tasks
        IN  /\ Len(new) = Len(old)
            /\ \A i \in 1..Len(old) :
                  /\ new[i].id = old[i].id
                  /\ new[i].createdAt = old[i].createdAt
                  /\ old[i].id # task_id => new[i] = old[i]
                  /\ old[i].id = task_id =>
                        /\ new[i] = last.task
                        /\ last.outcome = "updated" =>
                              /\ new[i].status = old[i].status
                              /\ new[i].description = Spelled(last.argv, 4)
                        /\ last.outcome = "marked" =>
                              /\ new[i].description = old[i].description
                              /\ new[i].status = last.argv[4]
            /\ task_id \in Ids(old)

\* C17 witness: an update gave the second of two tasks, one that had been
\* marked done, another description in a later second.
C17_Witness ==
    /\ last.outcome = "updated"
    /\ Len(file.tasks) = 2
    /\ file.tasks[1] = last.pre.tasks[1]
    /\ file.tasks[2].description # last.pre.tasks[2].description
    /\ file.tasks[2].updatedAt > last.pre.tasks[2].updatedAt
    /\ file.tasks[2].status = "done"

\* The tasks of the sequence whose id is not task_id, in order.
Without(tasks, task_id) ==
    LET Other(t) == t.id # task_id
    IN  SelectSeq(tasks, Other)

\* C18: a successful delete of an existing id removes exactly one task, the
\* one with that id: the collection is one shorter, no task with that id
\* remains, and all other tasks keep their field values and relative order.
C18_DeleteFrame ==
    last.outcome = "deleted" =>
        LET task_id == ParseInt(last.argv[3]).value
        IN  /\ Len(file.tasks) = Len(last.pre.tasks) - 1
            /\ task_id \notin Ids(file.tasks)
            /\ file.tasks = Without(last.pre.tasks, task_id)
            /\ last.task.id = task_id
            /\ Includes(last.pre.tasks, last.task)

\* C18 witness: the first of two tasks was deleted and the second is what
\* is left.
C18_Witness ==
    /\ last.outcome = "deleted"
    /\ Len(last.pre.tasks) = 2
    /\ last.task = last.pre.tasks[1]
    /\ file.tasks = <<last.pre.tasks[2]>>

\* C19: from an absent or empty store, in every reachable persisted state
\* the tasks appear in strictly increasing id order, which is the order of
\* their creation.
C19_IdsIncreaseInOrder ==
    \A i, j \in 1..Len(file.tasks) :
        i < j => /\ file.tasks[i].id < file.tasks[j].id
                 /\ file.tasks[i].createdAt <= file.tasks[j].createdAt

\* C19 witness: after a delete of the first task and an add, a mark of the
\* older of the two tasks left them in the order of their ids 2 and 3.
C19_Witness ==
    /\ last.outcome = "marked"
    /\ Len(file.tasks) = 2
    /\ file.tasks[1].id = 2
    /\ file.tasks[2].id = 3
    /\ last.task = file.tasks[1]
    /\ file.tasks[1].createdAt < file.tasks[2].createdAt

====
